---- MODULE Spec2Model ----
(***************************************************************************)
(* The analytic Blandford-McKee blast wave of examples/bmk_oned.py: the    *)
(* kinematics formulas, the nearest-index lookup and the stepping loop of  *)
(* main().                                                                 *)
(*                                                                         *)
(* Numbers.  The program computes in double precision.  Here every real    *)
(* is a fixed-point integer x standing for x / Scale, every operation      *)
(* rounds to the nearest representable value, and a magnitude above Huge   *)
(* is held at Huge (the place of the floating-point infinity).  The slope  *)
(* k and the exponent m are kept as integers.  Python's indices from 0 are  *)
(* indices from 1 here.  The plot (matplotlib) is left out: it reads the   *)
(* arrays and changes nothing the loop reads.                              *)
(***************************************************************************)
EXTENDS Integers, Sequences, FiniteSets, TLC

\* ------------------------------------------------------------ numbers

Scale == 10^3
Huge  == 10^9

Abs(x) == IF x < 0 THEN -x ELSE x
Sgn(x) == IF x < 0 THEN -1 ELSE 1
Min(a, b) == IF a <= b THEN a ELSE b
Max(a, b) == IF a >= b THEN a ELSE b
Sat(x) == IF x > Huge THEN Huge ELSE IF x < -Huge THEN -Huge ELSE x

\* a + b and a - b
FAdd(a, b) == Sat(a + b)
FSub(a, b) == Sat(a - b)

\* n * x for an integer n >= 0
ITimes(n, x) ==
  IF n = 0 \/ x = 0 THEN 0
  ELSE IF Abs(x) > Huge \div n THEN Sgn(x) * Huge
  ELSE n * x

\* a * b
FMul(a, b) ==
  LET x == Max(Abs(a), Abs(b))
      y == Min(Abs(a), Abs(b))
      s == Sgn(a) * Sgn(b)
      q == x \div Scale
      r == x % Scale
  IN  IF y = 0 THEN 0
      ELSE IF y > Huge \div Scale THEN s * Huge
      ELSE IF q > Huge \div y THEN s * Huge
      ELSE s * Min(Huge, q * y + (r * y + Scale \div 2) \div Scale)

\* a / b; a division by zero gives the infinity, as numpy's float64 does
FDiv(a, b) ==
  LET x == Abs(a)
      y == Abs(b)
      s == Sgn(a) * Sgn(b)
      q == IF y = 0 THEN 0 ELSE x \div y
      r == IF y = 0 THEN 0 ELSE x % y
      frac == IF y <= Huge \div Scale
              THEN (r * Scale + y \div 2) \div y
              ELSE r \div (y \div Scale)
  IN  IF x = 0 THEN 0
      ELSE IF y = 0 THEN s * Huge
      ELSE IF q > Huge \div Scale THEN s * Huge
      ELSE s * Min(Huge, q * Scale + frac)

\* x ** n for an integer n >= 0, by repeated squaring
RECURSIVE FPowInt(_, _)
FPowInt(x, n) ==
  IF n = 0 THEN Scale
  ELSE IF n = 1 THEN x
  ELSE LET half == FPowInt(x, n \div 2)
           sq   == FMul(half, half)
       IN  IF n % 2 = 1 THEN FMul(sq, x) ELSE sq

\* the largest y in [lo, hi) with y ** q <= x, by bisection
RECURSIVE RootSearch(_, _, _, _)
RootSearch(x, q, lo, hi) ==
  IF hi - lo <= 1 THEN lo
  ELSE LET mid == lo + (hi - lo) \div 2
       IN  IF FPowInt(mid, q) <= x
           THEN RootSearch(x, q, mid, hi)
           ELSE RootSearch(x, q, lo, mid)

\* x ** (1/q) for x >= 0
FRoot(x, q) == IF q = 1 THEN x ELSE RootSearch(x, q, 0, Max(x, Scale) + 1)

\* x ** (p/q) for x >= 0 and integers p, q with q # 0; a negative exponent
\* is taken as the reciprocal of the positive power
FPow(x, p, q) ==
  LET pos == FPowInt(FRoot(x, Abs(q)), Abs(p))
  IN  IF p = 0 THEN Scale
      ELSE IF Sgn(p) * Sgn(q) > 0 THEN pos
      ELSE FDiv(Scale, pos)

FSqrt(x) == FPow(x, 1, 2)

\* np.pi
Pi == (355 * Scale) \div 113

\* ------------------------------------------------------------ kinematics

\* ((17.0 - 4.0 * k) / 8.0 / np.pi)
ShockCoeff(k) == FDiv(FDiv((17 - 4 * k) * Scale, 8 * Scale), Pi)

calc_shock_lorentz_gamma(l, t, k) ==
  FMul(FSqrt(ShockCoeff(k)), FPow(FDiv(l, t), 3, 2))

calc_fluid_gamma_max(l, t, k) ==
  FDiv(calc_shock_lorentz_gamma(l, t, k), FSqrt(2 * Scale))

calc_chi(l, r, t, m, k) ==
  LET gamma_shock == calc_shock_lorentz_gamma(l, t, k)
  IN  FMul(FAdd(Scale, ITimes(2 * (m + 1), FPowInt(gamma_shock, 2))),
           FSub(Scale, FDiv(r, t)))

calc_gamma_fluid(gamma_shock, chi) == FDiv(gamma_shock, FSqrt(ITimes(2, chi)))

\* a * chi ** (-(p/q)), taken as a / chi ** (p/q) so that the small
\* reciprocal power is never rounded on its own
TimesNegPow(a, chi, p, q) == FDiv(a, FPow(chi, p, q))

calc_rho(gamma_shock, chi, rho0, k) ==
  LET gamma_fluid == calc_gamma_fluid(gamma_shock, chi)
  IN  FDiv(TimesNegPow(FMul(ITimes(2, rho0), FPowInt(gamma_shock, 2)),
                       chi, 7 - 2 * k, 4 - k),
           gamma_fluid)

calc_pressure(gamma_shock, chi, rho0, k) ==
  TimesNegPow(FMul(FMul(FDiv(2 * Scale, 3 * Scale), rho0), FPowInt(gamma_shock, 2)),
              chi, 17 - 4 * k, 12 - 3 * k)

calc_shock_radius(gamma_shock, t, m) ==
  FMul(t, FSub(Scale, FDiv(Scale, ITimes(2 * (m + 1), FPowInt(gamma_shock, 2)))))

\* ------------------------------------------------------------ grid

\* np.argmin: the first index of the least element
RECURSIVE ArgMinFrom(_, _, _)
ArgMinFrom(d, i, best) ==
  IF i > Len(d) THEN best
  ELSE ArgMinFrom(d, i + 1, IF d[i] < d[best] THEN i ELSE best)

\* a variant of argmin that keeps the last of several least elements
RECURSIVE ArgMinLastFrom(_, _, _)
ArgMinLastFrom(d, j, best) ==
  IF j > Len(d) THEN best
  ELSE ArgMinLastFrom(d, j + 1, IF d[j] <= d[best] THEN j ELSE best)

argminLast(d) == ArgMinLastFrom(d, 2, 1)

argmin(d) == ArgMinFrom(d, 2, 1)

\* find_nearest(arr, val): <<idx, arr[idx]>>, indices from 1
find_nearest(arr, val) ==
  LET idx == argmin([j \in 1..Len(arr) |-> Abs(arr[j] - val)])
  IN  <<idx, arr[idx]>>

\* np.geomspace(start, stop, num): a geometric progression whose two end
\* points are start and stop exactly
geomspace(start, stop, num) ==
  LET ratio == IF num > 1 THEN FRoot(FDiv(stop, start), num - 1) ELSE Scale
  IN  [j \in 1..num |->
         IF j = 1 THEN start
         ELSE IF j = num THEN stop
         ELSE FMul(start, FPowInt(ratio, j - 1))]

\* ------------------------------------------------------------ state

VARIABLES
  args,         \* the parsed command line: e0, rho0, t0, nzones, rmax, bmk_m, k, tinterval
  tphysical,    \* the deceleration time
  r0,           \* the initial shock radius
  r,            \* the radial grid, r[1] .. r[nzones]  (Python's r[0] .. r[nzones-1])
  dt,           \* the fixed step
  ell,          \* the length scale at the shock radius
  t,            \* the simulation time
  gamma_fluid,  \* the three fluid arrays, indexed as r
  rho,
  pressure,
  interval,     \* the next checkpoint boundary
  i,            \* the number of checkpoints written
  times,        \* the (t, ell) history
  ells,
  rshock_idx,   \* the grid index nearest to the shock radius, from 1
  upstream,     \* the index of the upstream sample, from 1
  gamma_shock,  \* the locals of the latest loop step
  chi_critical,
  chi,
  rshock,
  files,        \* the checkpoint files written, in order
  pc,           \* "loop", "done" (the loop was left) or "IndexError" (uncaught)
  shocked,      \* history: the indices some step has overwritten
  fn_arr,       \* the arguments and the result of a find_nearest call alone
  fn_val,
  fn_res

vars == <<args, tphysical, r0, r, dt, ell, t, gamma_fluid, rho, pressure,
          interval, i, times, ells, rshock_idx, upstream, gamma_shock,
          chi_critical, chi, rshock, files, pc, shocked, fn_arr, fn_val, fn_res>>

mainvars == <<args, tphysical, r0, r, dt, ell, t, gamma_fluid, rho, pressure,
              interval, i, times, ells, rshock_idx, upstream, gamma_shock,
              chi_critical, chi, rshock, files, pc, shocked>>

fnvars == <<fn_arr, fn_val, fn_res>>

\* ------------------------------------------------------------ inputs

MaxZones == 12

\* the defaults of the argument parser
DefaultArgs ==
  [e0 |-> Scale, rho0 |-> Scale, t0 |-> Scale \div 100, nzones |-> MaxZones,
   rmax |-> Scale, bmk_m |-> 3, k |-> 0, tinterval |-> Scale \div 10]

E0Set        == {Scale, 2 * Scale}
Rho0Set      == {Scale, 2 * Scale}
T0Set        == {Scale \div 100, (9 * Scale) \div 100, (3 * Scale) \div 10}
ZonesSet     == {3, 4, 6, MaxZones}
RmaxSet      == {Scale \div 2, Scale, 2 * Scale}
MSet         == {0, 3}
KSet         == {-1, 0, 1}
TintervalSet == {Scale \div 10, (3 * Scale) \div 10}

\* the command lines explored: the defaults with the zone count and one
\* group of options changed
ArgsWithZones(n) ==
  {[DefaultArgs EXCEPT !.nzones = n, !.k = k, !.bmk_m = m] :
      k \in KSet, m \in MSet}
  \cup
  {[DefaultArgs EXCEPT !.nzones = n, !.t0 = t0, !.tinterval = ti] :
      t0 \in T0Set, ti \in TintervalSet}
  \cup
  {[DefaultArgs EXCEPT !.nzones = n, !.e0 = e, !.rho0 = d, !.rmax = x] :
      e \in E0Set, d \in Rho0Set, x \in RmaxSet}

ArgSet == UNION {ArgsWithZones(n) : n \in ZonesSet}

\* ------------------------------------------------------------ main()

\* lines 84-99: the initial conditions that depend on the arguments alone
Ell0(a)        == FPow(FDiv(a.e0, a.rho0), 1, 3)
TPhysical(a)   == FMul(FPow(FDiv((17 - 4 * a.k) * Scale, ITimes(8, Pi)), 1, 3),
                       FPow(FDiv(a.e0, a.rho0), 1, 3))
GammaShock0(a) == calc_shock_lorentz_gamma(Ell0(a), a.t0, a.k)
R0(a)          == calc_shock_radius(GammaShock0(a), a.t0, a.bmk_m)
Grid(a)        == geomspace(R0(a), a.rmax, a.nzones)

\* line 103: rho0 * (r/r0)**(-k)
AmbientRho(a, g, j) == FMul(a.rho0, FPow(FDiv(g[j], g[1]), -a.k, 1))
\* line 104: rho * 1e-6
AmbientPressure(a, g, j) == AmbientRho(a, g, j) \div 10^6
\* lines 102, 106
InitialGamma(a, j) ==
  IF j = 1 THEN FDiv(GammaShock0(a), FSqrt(2 * Scale)) ELSE Scale

MainInit ==
  /\ args \in ArgSet
  /\ tphysical = TPhysical(args)
  /\ r0 = R0(args)
  /\ r = Grid(args)
  /\ dt = FDiv(args.rmax - r0, args.nzones * Scale)
  /\ ell = Ell0(args)
  /\ t = args.t0
  /\ gamma_fluid = [j \in 1..args.nzones |-> InitialGamma(args, j)]
  /\ rho = [j \in 1..args.nzones |-> AmbientRho(args, r, j)]
  /\ pressure = [j \in 1..args.nzones |-> AmbientPressure(args, r, j)]
  /\ interval = 0
  /\ i = 0
  /\ times = <<>>
  /\ ells = <<>>
  /\ rshock_idx = find_nearest(r, r0)[1]
  /\ upstream = 2
  /\ gamma_shock = GammaShock0(args)
  /\ chi_critical = 0
  /\ chi = [j \in 1..args.nzones |-> 0]
  /\ rshock = r0
  /\ files = <<>>
  /\ pc = "loop"
  /\ shocked = {}

\* line 125 and line 129: the similarity variable on the grid, with the
\* value at the shock index set to 1
ChiOfStep ==
  [[j \in 1..args.nzones |-> calc_chi(ell, r[j], t, args.bmk_m, args.k)]
     EXCEPT ![rshock_idx] = Scale]

\* line 130
Smask(c, crit) == {j \in DOMAIN c : c[j] >= Scale /\ c[j] <= crit}

\* a variant of NewRho whose selection forgets the upper end chi_critical
NewRhoNoUpper(c, g, mask) ==
  [j \in DOMAIN rho |->
     IF c[j] >= Scale THEN calc_rho(g, c[j], args.rho0, args.k) ELSE rho[j]]

\* line 131: rho[smask] = calc_rho(gamma_shock, chi[smask], rho0, args.k)
NewRho(c, g, mask) ==
  [j \in DOMAIN rho |->
     IF j \in mask THEN calc_rho(g, c[j], args.rho0, args.k) ELSE rho[j]]

\* a variant of NewGammaFluid whose selection forgets the lower end 1
NewGammaFluidNoLower(c, g, mask) ==
  [j \in DOMAIN gamma_fluid |->
     IF c[j] <= FPowInt(g, 2) \div 2 THEN calc_gamma_fluid(g, c[j]) ELSE gamma_fluid[j]]

\* line 132: gamma_fluid[smask] = calc_gamma_fluid(gamma_shock, chi[smask])
NewGammaFluid(c, g, mask) ==
  [j \in DOMAIN gamma_fluid |->
     IF j \in mask THEN calc_gamma_fluid(g, c[j]) ELSE gamma_fluid[j]]

\* line 133: pressure[smask] = calc_pressure(gamma_shock, chi[smask], rho0, args.k)
NewPressure(c, g, mask) ==
  [j \in DOMAIN pressure |->
     IF j \in mask THEN calc_pressure(g, c[j], args.rho0, args.k) ELSE pressure[j]]

\* a variant of NextInterval that restarts the boundary from the current time
NextIntervalFromNow(iv, ti) == t + ti

\* line 159: interval += args.tinterval
NextInterval(iv, ti) == iv + ti

\* line 140: beta = (1.0 - gamma_fluid**(-2.0))**0.5
Beta(g) == FSqrt(FSub(Scale, FPow(g, -2, 1)))

\* line 166: the indices where chi < 1.0
Where(c) == {j \in DOMAIN c : c[j] < Scale}
FirstOf(S) == CHOOSE j \in S : \A h \in S : j <= h

\* lines 121-164: one pass of the loop body up to the advance of t
Body(c, g) ==
  LET crit  == FPowInt(g, 2) \div 2
      mask  == Smask(c, crit)
      rho1  == NewRho(c, g, mask)
      gam1  == NewGammaFluid(c, g, mask)
      pres1 == NewPressure(c, g, mask)
  IN  /\ gamma_shock' = g
      /\ chi_critical' = crit
      /\ chi' = c
      /\ rho' = rho1
      /\ gamma_fluid' = gam1
      /\ pressure' = pres1
      /\ shocked' = shocked \cup mask
      /\ IF t >= interval
         THEN /\ files' = Append(files, [index |-> i, current_time |-> t,
                                         rho |-> rho1, p |-> pres1,
                                         v |-> [j \in DOMAIN gam1 |-> Beta(gam1[j])],
                                         ad_gamma |-> FDiv(4 * Scale, 3 * Scale),
                                         x1min |-> r0, x1max |-> args.rmax,
                                         Nx |-> args.nzones, linspace |-> FALSE])
              /\ interval' = NextInterval(interval, args.tinterval)
              /\ i' = i + 1
         ELSE UNCHANGED <<files, interval, i>>
      /\ ells' = Append(ells, ell)
      /\ times' = Append(times, t)
      /\ t' = t + dt

\* lines 120-169: a pass of the loop that finds an upstream index
Step ==
  /\ pc = "loop"
  /\ t < tphysical
  /\ LET g == calc_shock_lorentz_gamma(ell, t, args.k)
         c == ChiOfStep
     IN  /\ Where(c) # {}
         /\ Body(c, g)
         /\ upstream' = FirstOf(Where(c))
         /\ ell' = FPow(FDiv(args.e0, rho'[upstream']), 1, 3)
         /\ rshock' = calc_shock_radius(g, t', args.bmk_m)
         /\ rshock_idx' = find_nearest(r, rshock')[1]
  /\ UNCHANGED <<args, tphysical, r0, r, dt, pc, fnvars>>

\* lines 120-166: a pass of the loop in which np.where(chi < 1.0)[0] is
\* empty; [0] raises IndexError, which nothing catches
StepIndexError ==
  /\ pc = "loop"
  /\ t < tphysical
  /\ LET g == calc_shock_lorentz_gamma(ell, t, args.k)
         c == ChiOfStep
     IN  /\ Where(c) = {}
         /\ Body(c, g)
  /\ pc' = "IndexError"
  /\ UNCHANGED <<args, tphysical, r0, r, dt, upstream, ell, rshock, rshock_idx, fnvars>>

\* line 120: the loop condition fails and main() goes on to the plot
LoopExit ==
  /\ pc = "loop"
  /\ t >= tphysical
  /\ pc' = "done"
  /\ UNCHANGED <<args, tphysical, r0, r, dt, ell, t, gamma_fluid, rho, pressure,
                 interval, i, times, ells, rshock_idx, upstream, gamma_shock,
                 chi_critical, chi, rshock, files, shocked, fnvars>>

Init == MainInit /\ fn_arr = <<>> /\ fn_val = 0 /\ fn_res = <<>>

Next == Step \/ StepIndexError \/ LoopExit

Spec == Init /\ [][Next]_vars

\* ------------------------------------------------------------ find_nearest alone

MaxLen == 3
MaxVal == 3

SeqsUpTo(n, S) == UNION {[1..m -> S] : m \in 1..n}

\* main() is not running
MainIdle ==
  /\ args = DefaultArgs
  /\ tphysical = 0 /\ r0 = 0 /\ r = <<>> /\ dt = 0 /\ ell = 0 /\ t = 0
  /\ gamma_fluid = <<>> /\ rho = <<>> /\ pressure = <<>>
  /\ interval = 0 /\ i = 0 /\ times = <<>> /\ ells = <<>>
  /\ rshock_idx = 1 /\ upstream = 2 /\ gamma_shock = 0 /\ chi_critical = 0
  /\ chi = <<>> /\ rshock = 0 /\ files = <<>> /\ pc = "idle" /\ shocked = {}

NearestInit ==
  /\ MainIdle
  /\ fn_arr \in SeqsUpTo(MaxLen, 0..MaxVal)
  /\ fn_val \in -1..(MaxVal + 1)
  /\ fn_res = <<>>

\* lines 46-48: one call of find_nearest
NearestCall ==
  /\ fn_res = <<>>
  /\ fn_res' = find_nearest(fn_arr, fn_val)
  /\ UNCHANGED <<fn_arr, fn_val, mainvars>>

NearestNext == NearestCall

SpecNearest == NearestInit /\ [][NearestNext]_vars

\* ------------------------------------------------------------ properties

\* at least one pass of the loop has run
Started == Len(times) > 0

\* the three values of grid point j now, and as lines 102-106 set them
Triple(j) == <<rho[j], gamma_fluid[j], pressure[j]>>
InitialTriple(j) ==
  <<AmbientRho(args, r, j), InitialGamma(args, j), AmbientPressure(args, r, j)>>

\* C1: a grid point that a step leaves outside [1, chi_critical] keeps its
\* three values in that step, and a point that some step has overwritten
\* never again holds its ambient initial values.
C1_OneWayTransition ==
  [][\A j \in DOMAIN rho :
        /\ ~(chi'[j] >= Scale /\ chi'[j] <= chi_critical') => Triple(j)' = Triple(j)
        /\ j \in shocked' => Triple(j)' # InitialTriple(j)]_vars

\* C1 witness: a point overwritten by an earlier step that the latest step
\* found outside [1, chi_critical] and left shocked.
C1_Witness ==
  /\ Started
  /\ \E j \in shocked :
        /\ ~(chi[j] >= Scale /\ chi[j] <= chi_critical)
        /\ Triple(j) # InitialTriple(j)

\* C2 as stated, in the part about a step: a step overwrites no grid point
\* that lies ahead of the current shock radius, the point at the forced
\* shock index included, so such a point keeps its initial values.
C2_Original ==
  [][\A j \in DOMAIN rho :
        (r[j] > rshock /\ Triple(j) = InitialTriple(j)) =>
           Triple(j)' = InitialTriple(j)]_vars

\* C2 as amended: every grid point that no step's mask has selected (by
\* 1 <= chi <= chi_critical, the forced chi at the shock index included)
\* holds its initial values.
C2_UnselectedPristine ==
  \A j \in DOMAIN rho : j \notin shocked => Triple(j) = InitialTriple(j)

\* C2 witness: a point ahead of the shock radius has been overwritten while
\* another point is still untouched after several steps.
C2_Witness ==
  /\ Len(times) >= 2
  /\ \E j \in shocked : j > 1 /\ r[j] > rshock
  /\ \E j \in DOMAIN rho : j \notin shocked /\ Triple(j) = InitialTriple(j)

\* the command line of C3, the zone count left open
C3Args ==
  /\ args.k = 0 /\ args.bmk_m = 3 /\ args.e0 = Scale /\ args.rho0 = Scale
  /\ args.t0 = Scale \div 100 /\ args.rmax = Scale

\* C3 as stated: with k=0, m=3, e0=1, rho0=1, t0=0.01, rmax=1 the run ends
\* in the terminated state with t >= t_physical after at most nzones
\* steps, t growing by dt in every step; it never ends otherwise.
C3_Original ==
  C3Args =>
    /\ pc \in {"loop", "done"}
    /\ Len(times) <= args.nzones
    /\ \A n \in 2..Len(times) : times[n] = times[n - 1] + dt
    /\ pc = "done" => t >= tphysical

\* checkpoint n (from 1) carries index n - 1
ConsecutiveIndices == \A n \in 1..Len(files) : files[n].index = n - 1

\* checkpoint n is written in the step where t first reaches (n-1)*tinterval
FirstReach ==
  \A n \in 1..Len(files) :
    /\ files[n].current_time >= (n - 1) * args.tinterval
    /\ \/ files[n].current_time = args.t0
       \/ files[n].current_time - dt < (n - 1) * args.tinterval

\* C4 as stated: a run that ends with t >= t_physical wrote checkpoints
\* 0, 1, 2, ..., each in the step where t first reaches the next multiple of
\* tinterval, floor((t_physical - t0) / tinterval) + 1 of them.
C4_Original ==
  (pc = "done" /\ t >= tphysical) =>
    /\ ConsecutiveIndices
    /\ FirstReach
    /\ Len(files) = (tphysical - args.t0) \div args.tinterval + 1

\* C4 as amended: the checkpoints carry the indices 0, 1, 2, ..., at most
\* one is written per step, and checkpoint n only once t has reached
\* n * tinterval; when t0 < tinterval and dt <= tinterval each is written in
\* the step where t first reaches its multiple, and a run that ends with
\* t >= t_physical wrote floor(t_last / tinterval) + 1 of them, t_last the
\* time of the last step.
C4_Cadence ==
  /\ ConsecutiveIndices
  /\ i = Len(files)
  /\ \A n \in 1..Len(files) : files[n].current_time >= (n - 1) * args.tinterval
  /\ \A n \in 2..Len(files) : files[n].current_time > files[n - 1].current_time
  /\ (args.t0 < args.tinterval /\ dt <= args.tinterval) =>
       /\ FirstReach
       /\ (pc = "done" /\ Started) =>
            Len(files) = times[Len(times)] \div args.tinterval + 1

\* C4 witness: a finished run with t0 < tinterval and dt <= tinterval whose
\* checkpoint count differs from floor((t_physical - t0)/tinterval) + 1.
C4_Witness ==
  /\ pc = "done" /\ t >= tphysical
  /\ args.t0 < args.tinterval /\ dt <= args.tinterval
  /\ Len(files) >= 3
  /\ Len(files) # (tphysical - args.t0) \div args.tinterval + 1

\* C5 as stated: when the upstream lookup finds no point with chi < 1 the
\* loop has stopped in the terminated state, not in an error.
C5_Original == (Started /\ Where(chi) = {}) => pc = "done"

\* C6 as stated: a step whose chi_critical is below 1 aborts the run with a
\* domain error and writes no checkpoint.
C6_Original ==
  (Started /\ chi_critical < Scale) =>
    /\ pc = "DomainError"
    /\ \A n \in 1..Len(files) : files[n].current_time # times[Len(times)]

\* C7: find_nearest returns an index of least distance to the value, the
\* lowest such index, and the grid element at it.
C7_Nearest ==
  fn_res # <<>> =>
    LET idx == fn_res[1]
        D(j) == Abs(fn_arr[j] - fn_val)
    IN  /\ idx \in 1..Len(fn_arr)
        /\ \A j \in 1..Len(fn_arr) : D(idx) <= D(j)
        /\ \A j \in 1..(idx - 1) : D(j) > D(idx)
        /\ fn_res[2] = fn_arr[idx]

\* C7 witness: a call answered while two indices are at the same least
\* distance.
C7_Witness ==
  /\ fn_res # <<>>
  /\ \E j \in 1..Len(fn_arr) :
        /\ j # fn_res[1]
        /\ Abs(fn_arr[j] - fn_val) = Abs(fn_arr[fn_res[1]] - fn_val)

\* C8 as stated: the shock Lorentz factor of every executed step is >= 1.
C8_Original == Started => gamma_shock >= Scale

\* C9 as stated: from one step to the next the shock radius does not
\* shrink and the shock index does not move to a lower grid index.
C9_Original ==
  [][(Started /\ Len(times') > Len(times) /\ pc' = "loop") =>
       (rshock' >= rshock /\ rshock_idx' >= rshock_idx)]_vars

\* C10 as stated: the upstream index is a point no step has overwritten,
\* and ell is computed from its ambient density.
C10_Original ==
  (Started /\ pc # "IndexError") =>
    /\ upstream \notin shocked
    /\ ell = FPow(FDiv(args.e0, AmbientRho(args, r, upstream)), 1, 3)
====
